---- MODULE Spec2Model ----
(***************************************************************************)
(* Credential and token lifecycle of the student-connect-hub backend:      *)
(* register, login, forgot/reset password, email verification, the protect *)
(* and adminOnly middlewares and getMe, over the users collection; the     *)
(* profile update, posts with their likes and deletion, the server's start *)
(* with or without JWT_SECRET, and the session state the browser keeps.    *)
(* Time is counted in hours.                                               *)
(***************************************************************************)
EXTENDS Integers, Sequences, FiniteSets, TLC

\* ------------------------------------------------------------------ bounds
MaxUsers == 2
MaxRandom == 3
MaxTicks == 2
MaxSessions == 1
MaxReq == 2
MaxPosts == 1
MaxLikes == 2

\* ------------------------------------------------------- program constants
\* 60 * 60 * 1000 ms, in hours
ResetTTL == 1
\* expiresIn: '24h', in hours
SessionTTL == 24
\* isLength({ min: 1, max: 50 }) for name, isLength({ max: 200 }) for bio
NameMax == 50
BioMax == 200

\* ------------------------------------------------------------------- state
VARIABLES
    users,      \* the users collection: _id -> document (exists = FALSE: none)
    nextId,     \* number of _ids handed out so far
    rnd,        \* number of crypto.randomBytes tokens generated so far
    now,        \* Date.now(), in hours
    ticks,      \* number of clock advances so far
    jar,        \* session tokens a client has kept from responses
    last,       \* the most recently completed request and its response
    reqs,       \* requests in flight (interleaved handlers)
    redeemed,   \* history: per raw reset token, the number of successful resets
    jwtSecret,  \* process.env.JWT_SECRET is defined
    posts,      \* the posts collection: _id -> document
    client      \* the browser: localStorage token and the AuthProvider state

vars == <<users, nextId, rnd, now, ticks, jar, last, reqs, redeemed,
          jwtSecret, posts, client>>

\* ------------------------------------------------------------------ emails
\* An address is its local part (a sequence of characters) and its domain.
Email(l, d) == [local |-> l, domain |-> d]
NoEmail == Email(<<>>, "")

InputEmails ==
    { Email(<<"a", "b">>, "gmail.com"),
      Email(<<"a", ".", "b">>, "gmail.com"),
      Email(<<"A", "b">>, "x.org") }

Passwords == {"Secret123", "NewSecret456"}

toLowerCase(c) == IF c = "A" THEN "a" ELSE IF c = "B" THEN "b" ELSE c

LowerLocal(l) == [i \in DOMAIN l |-> toLowerCase(l[i])]

RemoveDots(l) == SelectSeq(l, LAMBDA c : c # ".")

\* body('email')...normalizeEmail() with the library defaults: the local part
\* is lower-cased, and for gmail.com the dots of the local part are removed.
normalizeEmail(e) ==
    IF e.domain = "gmail.com"
    THEN Email(LowerLocal(RemoveDots(e.local)), e.domain)
    ELSE Email(LowerLocal(e.local), e.domain)

\* The stored email is case-normalised and looked up case-insensitively.
StoreEmail(e) == Email(LowerLocal(e.local), e.domain)

\* ------------------------------------------------------- hashes and tokens
\* Password hash kept by the store (never the plaintext).
HashPassword(p) == [bcrypt |-> p]

comparePassword(candidate, hash) == hash = HashPassword(candidate)

\* crypto.createHash('sha256').update(token).digest('hex'); raw tokens are
\* the outputs 1, 2, ... of crypto.randomBytes; 0 stands for an absent field.
Sha256(t) == [sha256 |-> t]
NoDigest == Sha256(0)

\* crypto.randomBytes(32).toString('hex'): raw token t as the string that is
\* logged and put in the link.
RawHex(t) == [hex |-> t]

\* jwt.sign({ userId }, secret, { expiresIn: '24h' })
NoJwt == [userId |-> 0, iat |-> 0, exp |-> 0, sig |-> "none"]

SignJwt(userId, t) ==
    [userId |-> userId, iat |-> t, exp |-> t + SessionTTL, sig |-> "hs256"]

generateToken(userId, t) == SignJwt(userId, t)

\* Mutant of verifyTokenOk: the expiry is not checked.
verifyTokenIgnoresExpiry(tok, t) == tok.sig = "hs256"

\* verifyToken: throws without JWT_SECRET; jwt.verify(token, secret) throws
\* on a bad signature or once now >= exp.
verifyTokenOk(tok, t) == jwtSecret /\ tok.sig = "hs256" /\ t < tok.exp

\* ------------------------------------------------------- collections
UserIds == 1..MaxUsers
Tokens == 1..MaxRandom
Slots == 1..MaxReq

NoUser ==
    [exists |-> FALSE, email |-> NoEmail, password |-> HashPassword(""),
     role |-> "", isEmailVerified |-> FALSE, emailVerificationToken |-> 0,
     passwordResetToken |-> NoDigest, passwordResetExpires |-> 0,
     name |-> <<>>, bio |-> <<>>]

NoLast ==
    [op |-> "none", email |-> NoEmail, password |-> "", token |-> 0,
     header |-> [scheme |-> "", token |-> NoJwt], sent |-> 0,
     res |-> [status |-> 0, body |-> "", jwt |-> NoJwt, uid |-> 0],
     identity |-> 0, handlerRan |-> FALSE]

PostIds == 1..MaxPosts

\* deleted: the _id was used by a post that has been removed.
NoPost ==
    [exists |-> FALSE, deleted |-> FALSE, author |-> 0, likes |-> 0, likedBy |-> <<>>]

\* useState({ user: null, isAuthenticated: false, isLoading: true }), and an
\* empty localStorage.
NoClient ==
    [token |-> NoJwt, user |-> 0, isAuthenticated |-> FALSE, isLoading |-> TRUE]

IdleReq ==
    [pc |-> "idle", op |-> "none", email |-> NoEmail, password |-> "",
     role |-> "", token |-> 0, doc |-> 0,
     res |-> [status |-> 0, body |-> "", jwt |-> NoJwt, uid |-> 0]]

\* The process has started and listens, with or without JWT_SECRET in its
\* environment; the collections are empty and the browser has not mounted.
startServer ==
    /\ users = [i \in UserIds |-> NoUser]
    /\ nextId = 0
    /\ rnd = 0
    /\ now = 0
    /\ ticks = 0
    /\ jar = {}
    /\ last = NoLast
    /\ reqs = [s \in Slots |-> IdleReq]
    /\ redeemed = [t \in Tokens |-> 0]
    /\ jwtSecret \in BOOLEAN
    /\ posts = [p \in PostIds |-> NoPost]
    /\ client = NoClient

\* A deployment with JWT_SECRET configured.
Init == startServer /\ jwtSecret

\* ------------------------------------------------------------ the store
Min(S) == CHOOSE x \in S : \A y \in S : x <= y

\* User.findOne({ email }): the _id of the first match, 0 for null.
FindByEmail(us, e) ==
    LET m == {i \in UserIds : us[i].exists /\ us[i].email = StoreEmail(e)}
    IN  IF m = {} THEN 0 ELSE Min(m)

\* User.findById(id)
FindById(us, id) == IF id \in UserIds /\ us[id].exists THEN id ELSE 0

\* User.create({...}): the document as stored (password hashed on save).
\* The name every registration carries, as a sequence of characters.
RegisteredName == <<"N">>

NewUser(e, p, role, vtok) ==
    [exists |-> TRUE, email |-> StoreEmail(e), password |-> HashPassword(p),
     role |-> role, isEmailVerified |-> FALSE, emailVerificationToken |-> vtok,
     passwordResetToken |-> NoDigest, passwordResetExpires |-> 0,
     name |-> RegisteredName, bio |-> <<>>]

\* The unique index on email: create throws E11000 when the email is taken.
DuplicateKey(us, e) == FindByEmail(us, e) # 0

\* ------------------------------------------------------------ responses
Res(status, body, jwt, uid) ==
    [status |-> status, body |-> body, jwt |-> jwt, uid |-> uid]

EmailAlreadyRegistered == Res(400, "Email already registered", NoJwt, 0)
\* Mutant of LoginNoUser: the unknown-email branch tells the caller so.
LoginNoUserLeaky == Res(404, "User not found", NoJwt, 0)

LoginNoUser == Res(401, "Invalid email or password", NoJwt, 0)
LoginBadPassword == Res(401, "Invalid email or password", NoJwt, 0)
\* Mutant of ForgotNoUser: the unknown-email branch tells the caller so.
ForgotNoUserLeaky == Res(404, "No account with that email", NoJwt, 0)

ForgotNoUser ==
    Res(200, "If an account with that email exists, a password reset link has been sent.", NoJwt, 0)
ForgotSent ==
    Res(200, "If an account with that email exists, a password reset link has been sent.", NoJwt, 0)
InvalidOrExpiredToken == Res(400, "Invalid or expired reset token", NoJwt, 0)
ResetSuccessful ==
    Res(200, "Password reset successful. You can now log in with your new password.", NoJwt, 0)
InvalidVerificationToken == Res(400, "Invalid verification token", NoJwt, 0)
EmailVerified == Res(200, "Email verified successfully!", NoJwt, 0)
ProtectNoToken == Res(401, "Not authorized to access this route", NoJwt, 0)
ProtectUserNotFound == Res(401, "User not found", NoJwt, 0)
\* Mutant of ProtectBadToken: the verification error is passed on to the caller.
ProtectBadTokenLeaky == Res(401, "jwt expired or invalid signature", NoJwt, 0)

ProtectBadToken == Res(401, "Not authorized to access this route", NoJwt, 0)

\* Mutant of errorHandler: the duplicate-key error is not recognised.
errorHandlerNoDuplicateKey(code) == Res(500, "Server Error", NoJwt, 0)

\* errorHandler: the response for an error passed to next(error).
errorHandler(code) ==
    IF code = 11000
    THEN Res(400, "email already exists", NoJwt, 0)
    ELSE Res(500, "Server Error", NoJwt, 0)

\* The response carrying generateToken(userId): generateToken throws without
\* JWT_SECRET and the handler's catch passes the error to errorHandler.
IssueSession(status, userId, t) ==
    IF jwtSecret THEN Res(status, "", generateToken(userId, t), userId)
    ELSE errorHandler(500)

\* registerValidation's rule for role: optional, one of student or founder.
RoleInputs == {"", "admin"}

\* Mutant of registerValidation: role is not restricted.
registerValidationAnyRole(role) == Res(0, "", NoJwt, 0)

registerValidation(role) ==
    IF role \in {"", "student", "founder"}
    THEN Res(0, "", NoJwt, 0)
    ELSE Res(400, "Role must be student or founder", NoJwt, 0)

\* ------------------------------------------------- handlers, as functions
\* Mutant of RegisterCheck: the existence check is left out.
RegisterCheckNone(us, email) == 0

\* register, after validation: the existence check on the normalised email.
RegisterCheck(us, email) == FindByEmail(us, normalizeEmail(email))

\* Mutant of login: the password comparison's result is ignored.
loginNoCompare(us, t, email, password) ==
    LET u == FindByEmail(us, email)
    IN  IF u = 0 THEN LoginNoUser ELSE Res(200, "", generateToken(u, t), u)

\* login: the response for (email, password) in store us at time t.
login(us, t, email, password) ==
    LET u == FindByEmail(us, email)
    IN  IF u = 0 THEN LoginNoUser
        ELSE IF ~comparePassword(password, us[u].password) THEN LoginBadPassword
        ELSE IssueSession(200, u, t)

\* Mutant of ForgotSave: a digest already stored is kept.
ForgotSaveKeepsFirst(us, u, raw, t) ==
    IF us[u].passwordResetToken # NoDigest THEN us
    ELSE [us EXCEPT ![u].passwordResetToken = Sha256(raw),
                    ![u].passwordResetExpires = t + ResetTTL]

\* Mutant of ForgotSave: the expiry is not written.
ForgotSaveNoExpiry(us, u, raw, t) ==
    [us EXCEPT ![u].passwordResetToken = Sha256(raw)]

\* Mutant of ForgotSave: the raw token is stored instead of its digest.
ForgotSaveRaw(us, u, raw, t) ==
    [us EXCEPT ![u].passwordResetToken = RawHex(raw),
               ![u].passwordResetExpires = t + ResetTTL]

\* forgotPassword's save: the digest of the raw token and the expiry.
ForgotSave(us, u, raw, t) ==
    [us EXCEPT ![u].passwordResetToken = Sha256(raw),
               ![u].passwordResetExpires = t + ResetTTL]

\* Mutant of ResetFind: the expiry is not part of the query.
ResetFindAnyExpiry(us, t, raw) ==
    LET m == {i \in UserIds : /\ us[i].exists
                              /\ us[i].passwordResetToken = Sha256(raw)}
    IN  IF m = {} THEN 0 ELSE Min(m)

\* Mutant of ResetFind: $gte instead of $gt on the expiry.
ResetFindGte(us, t, raw) ==
    LET m == {i \in UserIds : /\ us[i].exists
                              /\ us[i].passwordResetToken = Sha256(raw)
                              /\ us[i].passwordResetExpires >= t}
    IN  IF m = {} THEN 0 ELSE Min(m)

\* resetPassword's findOne({ passwordResetToken, passwordResetExpires: $gt now })
ResetFind(us, t, raw) ==
    LET m == {i \in UserIds : /\ us[i].exists
                              /\ us[i].passwordResetToken = Sha256(raw)
                              /\ us[i].passwordResetExpires > t}
    IN  IF m = {} THEN 0 ELSE Min(m)

\* Mutant of ResetSave: the record is replaced by none.
ResetSaveDropsRecord(us, u, password) == [us EXCEPT ![u] = NoUser]

\* Mutant of ResetSave: the reset fields are not cleared.
ResetSaveKeepsToken(us, u, password) ==
    [us EXCEPT ![u].password = HashPassword(password)]

\* resetPassword's save: the modified paths of the document, written by _id.
ResetSave(us, u, password) ==
    [us EXCEPT ![u].password = HashPassword(password),
               ![u].passwordResetToken = NoDigest,
               ![u].passwordResetExpires = 0]

\* verifyEmail's findOne({ emailVerificationToken: token })
VerifyFind(us, tok) ==
    LET m == {i \in UserIds : us[i].exists /\ us[i].emailVerificationToken = tok}
    IN  IF m = {} THEN 0 ELSE Min(m)

\* Mutant of VerifySave: the verification token is not cleared.
VerifySaveKeepsToken(us, u) == [us EXCEPT ![u].isEmailVerified = TRUE]

\* verifyEmail's save: the modified paths of the document, written by _id.
VerifySave(us, u) ==
    [us EXCEPT ![u].isEmailVerified = TRUE, ![u].emailVerificationToken = 0]

\* History only: one more successful reset made with token raw.
Redeem(h, raw) == [h EXCEPT ![raw] = @ + 1]

\* The Authorization header of a request.
NoHeader == [scheme |-> "", token |-> NoJwt]
Bearer(tok) == [scheme |-> "Bearer", token |-> tok]
Forged(tok) == [tok EXCEPT !.sig = "forged"]
\* A bearer string that is no JWT at all.
Malformed == [userId |-> 0, iat |-> 0, exp |-> 0, sig |-> "malformed"]

\* Mutant of protect: the user lookup's result is not checked.
protectNoUserCheck(us, t, header) ==
    IF header.scheme # "Bearer" \/ header.token = NoJwt
    THEN [res |-> ProtectNoToken, identity |-> 0, next |-> FALSE]
    ELSE IF ~verifyTokenOk(header.token, t)
    THEN [res |-> ProtectBadToken, identity |-> 0, next |-> FALSE]
    ELSE [res |-> Res(0, "", NoJwt, 0), identity |-> header.token.userId, next |-> TRUE]

\* protect: the response it sends (status 0: none, next() was called) and
\* the user it attaches to the request.
protect(us, t, header) ==
    IF header.scheme # "Bearer" \/ header.token = NoJwt
    THEN [res |-> ProtectNoToken, identity |-> 0, next |-> FALSE]
    ELSE IF ~verifyTokenOk(header.token, t)
    THEN [res |-> ProtectBadToken, identity |-> 0, next |-> FALSE]
    ELSE IF FindById(us, header.token.userId) = 0
    THEN [res |-> ProtectUserNotFound, identity |-> 0, next |-> FALSE]
    ELSE [res |-> Res(0, "", NoJwt, 0), identity |-> header.token.userId, next |-> TRUE]

\* getMe: the handler behind protect.
getMe(identity) ==
    IF identity = 0 THEN Res(401, "Not authenticated", NoJwt, 0)
    ELSE Res(200, "", NoJwt, identity)

\* Mutant of adminOnly: any authenticated user passes.
adminOnlyAnyUser(us, identity) ==
    IF identity = 0 THEN Res(401, "Not authenticated", NoJwt, 0)
    ELSE Res(0, "", NoJwt, 0)

\* adminOnly: the response it sends (status 0: none, next() was called) for
\* the user protect attached to the request.
adminOnly(us, identity) ==
    IF identity = 0 THEN Res(401, "Not authenticated", NoJwt, 0)
    ELSE IF us[identity].role # "admin" THEN Res(403, "Admin access required", NoJwt, 0)
    ELSE Res(0, "", NoJwt, 0)

\* ----------------------------------------------------------- profile
\* Texts are sequences of characters.
RECURSIVE TrimStart(_)
TrimStart(t) == IF t # <<>> /\ Head(t) = " " THEN TrimStart(Tail(t)) ELSE t

RECURSIVE TrimEnd(_)
TrimEnd(t) ==
    IF t # <<>> /\ t[Len(t)] = " " THEN TrimEnd(SubSeq(t, 1, Len(t) - 1)) ELSE t

\* String.prototype.trim and express-validator's trim()
trim(t) == TrimEnd(TrimStart(t))

\* sanitizeHtml: each of & < > " ' becomes its HTML entity.
sanitizeHtml(t) ==
    [i \in DOMAIN t |->
        CASE t[i] = "&" -> "&amp;"
          [] t[i] = "<" -> "&lt;"
          [] t[i] = ">" -> "&gt;"
          [] t[i] = "\"" -> "&quot;"
          [] t[i] = "'" -> "&#x27;"
          [] OTHER -> t[i]]

UnexpectedFields == Res(400, "Request contains unexpected fields", NoJwt, 0)

\* Mutant of rejectUnknownFields: every field is let through.
rejectUnknownFieldsNone(body, allowedFields) == Res(0, "", NoJwt, 0)

\* rejectUnknownFields(allowedFields): the response it sends (status 0: none,
\* next() was called).
rejectUnknownFields(body, allowedFields) ==
    IF DOMAIN body \ allowedFields # {} THEN UnexpectedFields
    ELSE Res(0, "", NoJwt, 0)

\* updateProfileValidation: the response it sends (status 0: none) and the
\* body it hands on, trimmed and sanitized.
updateProfileValidation(body) ==
    LET r == rejectUnknownFields(body, {"name", "bio"})
        hasName == "name" \in DOMAIN body
        hasBio == "bio" \in DOMAIN body
        badName == hasName /\ ~(Len(trim(body.name)) \in 1..NameMax)
        badBio == hasBio /\ Len(trim(body.bio)) > BioMax
        clean == [f \in DOMAIN body |->
                    IF f \in {"name", "bio"} THEN sanitizeHtml(trim(body[f]))
                    ELSE body[f]]
    IN  IF r.status # 0 THEN [res |-> r, body |-> body]
        ELSE IF badName \/ badBio
        THEN [res |-> Res(400, IF badName THEN "Name must be between 1 and 50 characters"
                               ELSE "Bio cannot exceed 200 characters", NoJwt, 0),
              body |-> body]
        ELSE [res |-> Res(0, "", NoJwt, 0), body |-> clean]

\* updateMe: User.findByIdAndUpdate(req.user._id, updateData) with updateData
\* holding the trimmed name and bio of the body, each only if present.
updateMe(us, identity, body) ==
    [us EXCEPT ![identity].name = IF "name" \in DOMAIN body THEN trim(body.name) ELSE @,
               ![identity].bio = IF "bio" \in DOMAIN body THEN trim(body.bio) ELSE @]

\* ------------------------------------------------------------- posts
PostNotFound == Res(404, "Post not found", NoJwt, 0)
PostDeleted == Res(200, "Post deleted successfully", NoJwt, 0)

\* Post.create({ ..., author: req.user._id, likedBy: [] }); likes defaults to 0.
NewPost(author) ==
    [exists |-> TRUE, deleted |-> FALSE, author |-> author, likes |-> 0, likedBy |-> <<>>]

\* post.likedBy.findIndex(id => id.toString() === userId.toString())
findIndex(likedBy, u) ==
    LET m == {i \in DOMAIN likedBy : likedBy[i] = u}
    IN  IF m = {} THEN 0 ELSE Min(m)

\* post.likedBy.splice(likedIndex, 1)
splice(likedBy, i) == [k \in 1..(Len(likedBy) - 1) |-> IF k < i THEN likedBy[k] ELSE likedBy[k + 1]]

\* likePost's toggle on the loaded document, for user u.
likeToggle(doc, u) ==
    LET i == findIndex(doc.likedBy, u)
    IN  IF i > 0
        THEN [doc EXCEPT !.likedBy = splice(doc.likedBy, i),
                         !.likes = IF doc.likes - 1 > 0 THEN doc.likes - 1 ELSE 0]
        ELSE [doc EXCEPT !.likedBy = Append(doc.likedBy, u),
                         !.likes = doc.likes + 1]

\* post.save() after likeToggle, for the document as loaded and the
\* collection as it is now.  A push is sent as $push on the stored array; a
\* splice is sent as $set of the whole array and only applies while no other
\* save has changed the stored array since the load (the version key);
\* likes is sent as $set of the value computed from the loaded one.
\* written = FALSE: save threw (document gone, or version conflict).
LikeSave(ps, pid, loaded, u, fresh) ==
    LET new == likeToggle(loaded, u)
        unlike == findIndex(loaded.likedBy, u) > 0
    IN  IF ~ps[pid].exists THEN [written |-> FALSE, posts |-> ps]
        ELSE IF unlike
        THEN IF ~fresh THEN [written |-> FALSE, posts |-> ps]
             ELSE [written |-> TRUE,
                   posts |-> [ps EXCEPT ![pid].likedBy = new.likedBy,
                                        ![pid].likes = new.likes]]
        ELSE [written |-> TRUE,
              posts |-> [ps EXCEPT ![pid].likedBy = Append(@, u),
                                   ![pid].likes = new.likes]]

\* ------------------------------------------------ requests, one at a time
Done(op, email, password, token, header, sent, res, identity, ran) ==
    [op |-> op, email |-> email, password |-> password, token |-> token,
     header |-> header, sent |-> sent, res |-> res,
     identity |-> identity, handlerRan |-> ran]

\* POST /auth/register: the server's side of the request
register(email, password, role) ==
    LET v == registerValidation(role)
        e == normalizeEmail(email)
        id == nextId + 1
        vtok == rnd + 1
    IN  IF v.status # 0
        THEN /\ last' = Done("register", email, password, 0, NoHeader, 0, v, 0, FALSE)
             /\ UNCHANGED <<users, nextId, rnd, now, ticks, jar, reqs, redeemed, jwtSecret, posts>>
        ELSE IF RegisterCheck(users, email) # 0
        THEN /\ last' = Done("register", email, password, 0, NoHeader, 0,
                             EmailAlreadyRegistered, 0, TRUE)
             /\ UNCHANGED <<users, nextId, rnd, now, ticks, jar, reqs, redeemed, jwtSecret, posts>>
        ELSE /\ rnd < MaxRandom
             /\ rnd' = vtok
             /\ IF DuplicateKey(users, e)
                THEN /\ last' = Done("register", email, password, 0, NoHeader, 0,
                                     errorHandler(11000), 0, TRUE)
                     /\ UNCHANGED <<users, nextId>>
                ELSE /\ nextId < MaxUsers
                     /\ users' = [users EXCEPT ![id] =
                           NewUser(e, password, IF role = "" THEN "student" ELSE role, vtok)]
                     /\ nextId' = id
                     /\ last' = Done("register", email, password, 0, NoHeader, vtok,
                                     IssueSession(201, id, now), 0, TRUE)
             /\ UNCHANGED <<now, ticks, jar, reqs, redeemed, jwtSecret, posts>>

\* POST /auth/register, sent by a client the model does not follow
Register(email, password, role) ==
    /\ register(email, password, role)
    /\ UNCHANGED client

\* POST /auth/login
Login(email, password) ==
    /\ last' = Done("login", email, password, 0, NoHeader, 0,
                    login(users, now, email, password), 0, TRUE)
    /\ UNCHANGED <<users, nextId, rnd, now, ticks, jar, reqs, redeemed, jwtSecret, posts, client>>

\* POST /auth/forgot-password
ForgotPassword(email) ==
    LET u == FindByEmail(users, email)
        raw == rnd + 1
    IN  IF u = 0
        THEN /\ last' = Done("forgot", email, "", 0, NoHeader, 0, ForgotNoUser, 0, TRUE)
             /\ UNCHANGED <<users, nextId, rnd, now, ticks, jar, reqs, redeemed, jwtSecret, posts, client>>
        ELSE /\ rnd < MaxRandom
             /\ users' = ForgotSave(users, u, raw, now)
             /\ rnd' = raw
             /\ last' = Done("forgot", email, "", 0, NoHeader, raw, ForgotSent, 0, TRUE)
             /\ UNCHANGED <<nextId, now, ticks, jar, reqs, redeemed, jwtSecret, posts, client>>

\* POST /auth/reset-password/:token
ResetPassword(raw, password) ==
    LET u == ResetFind(users, now, raw)
    IN  IF u = 0
        THEN /\ last' = Done("reset", NoEmail, password, raw, NoHeader, 0,
                             InvalidOrExpiredToken, 0, TRUE)
             /\ UNCHANGED <<users, nextId, rnd, now, ticks, jar, reqs, redeemed, jwtSecret, posts, client>>
        ELSE /\ users' = ResetSave(users, u, password)
             /\ redeemed' = Redeem(redeemed, raw)
             /\ last' = Done("reset", NoEmail, password, raw, NoHeader, 0,
                             ResetSuccessful, u, TRUE)
             /\ UNCHANGED <<nextId, rnd, now, ticks, jar, reqs, jwtSecret, posts, client>>

\* GET /auth/me: protect, then getMe
Headers ==
    {NoHeader, Bearer(NoJwt), Bearer(Malformed)}
        \cup {Bearer(tok) : tok \in jar} \cup {Bearer(Forged(tok)) : tok \in jar}

GetMe(header) ==
    LET p == protect(users, now, header)
    IN  /\ last' = Done("me", NoEmail, "", 0, header, 0,
                        IF p.next THEN getMe(p.identity) ELSE p.res,
                        p.identity, p.next)
        /\ UNCHANGED <<users, nextId, rnd, now, ticks, jar, reqs, redeemed, jwtSecret, posts, client>>

\* The client keeps the session token of the response it just received.
KeepToken ==
    /\ last.res.jwt # NoJwt
    /\ last.res.jwt \notin jar
    /\ Cardinality(jar) < MaxSessions
    /\ jar' = jar \cup {last.res.jwt}
    /\ UNCHANGED <<users, nextId, rnd, now, ticks, last, reqs, redeemed, jwtSecret, posts, client>>

\* Time passes: d hours.
Tick(d) ==
    /\ ticks < MaxTicks
    /\ now' = now + d
    /\ ticks' = ticks + 1
    /\ UNCHANGED <<users, nextId, rnd, jar, last, reqs, redeemed, jwtSecret, posts, client>>

\* The account is removed from the users collection (outside the API).
DeleteUser(u) ==
    /\ users[u].exists
    /\ users' = [users EXCEPT ![u] = NoUser]
    /\ UNCHANGED <<nextId, rnd, now, ticks, jar, last, reqs, redeemed, jwtSecret, posts, client>>

\* A route behind protect and adminOnly.
AdminRoute(header) ==
    LET p == protect(users, now, header)
        a == adminOnly(users, p.identity)
    IN  /\ last' = Done("admin", NoEmail, "", 0, header, 0,
                        IF ~p.next THEN p.res
                        ELSE IF a.status # 0 THEN a
                        ELSE Res(200, "", NoJwt, p.identity),
                        p.identity, p.next /\ a.status = 0)
        /\ UNCHANGED <<users, nextId, rnd, now, ticks, jar, reqs, redeemed, jwtSecret, posts, client>>

\* An account is given the admin role (outside the API).
PromoteToAdmin(u) ==
    /\ users[u].exists
    /\ users[u].role # "admin"
    /\ users' = [users EXCEPT ![u].role = "admin"]
    /\ UNCHANGED <<nextId, rnd, now, ticks, jar, last, reqs, redeemed, jwtSecret, posts, client>>

\* The Authorization headers of the sessions registered users hold, and none.
SessionHeaders ==
    {NoHeader} \cup {Bearer(generateToken(u, now)) : u \in {i \in UserIds : users[i].exists}}

\* ------------------------------------------------ the browser's session
\* The request interceptor: the stored token, if any, as Authorization header.
ClientHeader(c) == IF c.token = NoJwt THEN NoHeader ELSE Bearer(c.token)

\* The response interceptor's effect on the browser for a response: 401
\* 'Token expired' removes the token and loads /login (the provider starts
\* anew), any other 401 removes the token and nothing else.
Intercept(c, res) ==
    IF res.status = 401 /\ res.body = "Token expired" THEN NoClient
    ELSE IF res.status = 401 THEN [c EXCEPT !.token = NoJwt]
    ELSE c

\* login and register of the provider after the response: a success with a
\* token is stored and the state becomes authenticated; otherwise only
\* isLoading is reset.
SignedIn(c, res) ==
    IF res.status < 400 /\ res.jwt # NoJwt
    THEN [token |-> res.jwt, user |-> res.uid, isAuthenticated |-> TRUE, isLoading |-> FALSE]
    ELSE [Intercept(c, res) EXCEPT !.isLoading = FALSE]

\* AuthProvider.register: POST /auth/register with role 'student'
ClientRegister(email, password) ==
    /\ ~client.isLoading
    /\ register(email, password, "student")
    /\ client' = SignedIn(client, last'.res)

\* AuthProvider.login: POST /auth/login
ClientLogin(email, password) ==
    LET res == login(users, now, email, password)
    IN  /\ ~client.isLoading
        /\ last' = Done("login", email, password, 0, ClientHeader(client), 0, res, 0, TRUE)
        /\ client' = SignedIn(client, res)
        /\ UNCHANGED <<users, nextId, rnd, now, ticks, jar, reqs, redeemed, jwtSecret, posts>>

\* The mount effect of AuthProvider: checkAuth
ClientCheckAuth ==
    LET p == protect(users, now, ClientHeader(client))
        res == IF p.next THEN getMe(p.identity) ELSE p.res
    IN  /\ client.isLoading
        /\ IF client.token = NoJwt
           THEN /\ client' = [client EXCEPT !.user = 0, !.isAuthenticated = FALSE,
                                            !.isLoading = FALSE]
                /\ UNCHANGED last
           ELSE /\ last' = Done("me", NoEmail, "", 0, ClientHeader(client), 0, res,
                                p.identity, p.next)
                /\ client' = IF res.status = 200
                             THEN [client EXCEPT !.user = res.uid, !.isAuthenticated = TRUE,
                                                 !.isLoading = FALSE]
                             ELSE [token |-> NoJwt, user |-> 0, isAuthenticated |-> FALSE,
                                   isLoading |-> FALSE]
        /\ UNCHANGED <<users, nextId, rnd, now, ticks, jar, reqs, redeemed, jwtSecret, posts>>

\* AuthProvider.logout
ClientLogout ==
    /\ ~client.isLoading
    /\ client' = [token |-> NoJwt, user |-> 0, isAuthenticated |-> FALSE, isLoading |-> FALSE]
    /\ UNCHANGED <<users, nextId, rnd, now, ticks, jar, last, reqs, redeemed, jwtSecret, posts>>

\* AuthProvider.refreshUser: GET /auth/me; a success replaces user, a failure
\* is swallowed after the interceptor has run.
ClientRefreshUser ==
    LET p == protect(users, now, ClientHeader(client))
        res == IF p.next THEN getMe(p.identity) ELSE p.res
    IN  /\ ~client.isLoading
        /\ last' = Done("me", NoEmail, "", 0, ClientHeader(client), 0, res,
                        p.identity, p.next)
        /\ client' = IF res.status = 200 THEN [client EXCEPT !.user = res.uid]
                     ELSE Intercept(client, res)
        /\ UNCHANGED <<users, nextId, rnd, now, ticks, jar, reqs, redeemed, jwtSecret, posts>>

\* The page is loaded again: the provider starts anew, localStorage stays.
ClientReload ==
    /\ ~client.isLoading
    /\ client' = [NoClient EXCEPT !.token = client.token]
    /\ UNCHANGED <<users, nextId, rnd, now, ticks, jar, last, reqs, redeemed, jwtSecret, posts>>

\* PUT /users/me: protect, updateProfileValidation, then updateMe
UpdateMe(header, body) ==
    LET p == protect(users, now, header)
        v == updateProfileValidation(body)
    IN  IF ~p.next
        THEN /\ last' = Done("updateMe", NoEmail, "", 0, header, 0, p.res, 0, FALSE)
             /\ UNCHANGED <<users, nextId, rnd, now, ticks, jar, reqs, redeemed, jwtSecret, posts, client>>
        ELSE IF v.res.status # 0
        THEN /\ last' = Done("updateMe", NoEmail, "", 0, header, 0, v.res, p.identity, FALSE)
             /\ UNCHANGED <<users, nextId, rnd, now, ticks, jar, reqs, redeemed, jwtSecret, posts, client>>
        ELSE /\ users' = updateMe(users, p.identity, v.body)
             /\ last' = Done("updateMe", NoEmail, "", 0, header, 0,
                             Res(200, "", NoJwt, p.identity), p.identity, TRUE)
             /\ UNCHANGED <<nextId, rnd, now, ticks, jar, reqs, redeemed, jwtSecret, posts, client>>

\* POST /posts: protect, then createPost
CreatePost(header) ==
    LET p == protect(users, now, header)
        free == {i \in PostIds : ~posts[i].exists /\ ~posts[i].deleted}
    IN  IF ~p.next
        THEN /\ last' = Done("createPost", NoEmail, "", 0, header, 0, p.res, 0, FALSE)
             /\ UNCHANGED <<users, nextId, rnd, now, ticks, jar, reqs, redeemed, jwtSecret, posts, client>>
        ELSE /\ free # {}
             /\ posts' = [posts EXCEPT ![Min(free)] = NewPost(p.identity)]
             /\ last' = Done("createPost", NoEmail, "", Min(free), header, 0,
                             Res(201, "", NoJwt, p.identity), p.identity, TRUE)
             /\ UNCHANGED <<users, nextId, rnd, now, ticks, jar, reqs, redeemed, jwtSecret, client>>

\* DELETE /posts/:id: protect, then deletePost
DeletePost(header, pid) ==
    LET p == protect(users, now, header)
    IN  IF ~p.next
        THEN /\ last' = Done("deletePost", NoEmail, "", pid, header, 0, p.res, 0, FALSE)
             /\ UNCHANGED <<users, nextId, rnd, now, ticks, jar, reqs, redeemed, jwtSecret, posts, client>>
        ELSE IF ~posts[pid].exists
        THEN /\ last' = Done("deletePost", NoEmail, "", pid, header, 0,
                             PostNotFound, p.identity, TRUE)
             /\ UNCHANGED <<users, nextId, rnd, now, ticks, jar, reqs, redeemed, jwtSecret, posts, client>>
        ELSE /\ posts' = [posts EXCEPT ![pid] = [NoPost EXCEPT !.deleted = TRUE]]
             /\ last' = Done("deletePost", NoEmail, "", pid, header, 0,
                             PostDeleted, p.identity, TRUE)
             /\ UNCHANGED <<users, nextId, rnd, now, ticks, jar, reqs, redeemed, jwtSecret, client>>

\* Credential requests served one at a time.
Next ==
    \/ \E e \in InputEmails, p \in Passwords, r \in RoleInputs : Register(e, p, r)
    \/ \E e \in InputEmails, p \in Passwords : Login(e, p)
    \/ \E e \in InputEmails : ForgotPassword(e)
    \/ \E t \in Tokens, p \in Passwords : ResetPassword(t, p)
    \/ Tick(ResetTTL)

Spec == Init /\ [][Next]_vars

\* Sessions: tokens issued by register and login, replayed to GET /auth/me,
\* while accounts may disappear from the store.
NextSession ==
    \/ \E e \in InputEmails, p \in Passwords, r \in RoleInputs : Register(e, p, r)
    \/ \E e \in InputEmails, p \in Passwords : Login(e, p)
    \/ \E h \in Headers : GetMe(h)
    \/ KeepToken
    \/ \E u \in UserIds : DeleteUser(u)
    \/ Tick(SessionTTL \div 2)

SessionSpec == Init /\ [][NextSession]_vars

\* Every value a client may send as role.
RegisterRoles == {"", "student", "founder", "admin"}

\* Roles: accounts of every role, their sessions, and the role gate.
NextGate ==
    \/ \E e \in InputEmails, r \in RegisterRoles : Register(e, "Secret123", r)
    \/ \E u \in UserIds : PromoteToAdmin(u)
    \/ KeepToken
    \/ \E h \in Headers : GetMe(h)
    \/ \E h \in Headers : AdminRoute(h)

GateSpec == Init /\ [][NextGate]_vars

\* Any deployment, with or without JWT_SECRET: the process serves what is
\* sent to it.
NextStartup ==
    \/ \E e \in InputEmails, p \in Passwords : Register(e, p, "")
    \/ \E e \in InputEmails, p \in Passwords : Login(e, p)
    \/ KeepToken
    \/ \E h \in Headers : GetMe(h)

StartupSpec == startServer /\ [][NextStartup]_vars

\* ------------------------------------------- requests, interleaved
\* A handler runs up to its first await (the store read) in one step and
\* from the read's result through its write and response in a second one;
\* steps of different requests interleave freely.
Pending(op, pc, email, password, role, token, doc) ==
    [pc |-> pc, op |-> op, email |-> email, password |-> password,
     role |-> role, token |-> token, doc |-> doc, res |-> Res(0, "", NoJwt, 0)]

\* The response is sent; the handler's locals are gone.
Answered(r, res) ==
    [r EXCEPT !.pc = "done", !.res = res, !.password = "", !.role = "", !.doc = 0]

\* A new request is served by the first free slot.
FreeSlot(s) ==
    /\ reqs[s].pc = "idle"
    /\ \A q \in Slots : reqs[q].pc = "idle" => s <= q

\* register up to the result of User.findOne({ email })
RegisterBegin(s, email, password, role) ==
    LET v == registerValidation(role)
        r == Pending("register", "create", normalizeEmail(email), password,
                     IF role = "" THEN "student" ELSE role, 0, 0)
    IN  /\ FreeSlot(s)
        /\ reqs' = [reqs EXCEPT ![s] =
              IF v.status # 0 THEN Answered(r, v)
              ELSE IF RegisterCheck(users, email) # 0
              THEN Answered(r, EmailAlreadyRegistered)
              ELSE r]
        /\ UNCHANGED <<users, nextId, rnd, now, ticks, jar, last, redeemed, jwtSecret, posts, client>>

\* register from User.create to the response
RegisterCreate(s) ==
    LET r == reqs[s]
        e == r.email
        id == nextId + 1
        vtok == rnd + 1
    IN  /\ r.pc = "create"
        /\ rnd < MaxRandom
        /\ rnd' = vtok
        /\ IF DuplicateKey(users, e)
           THEN /\ reqs' = [reqs EXCEPT ![s] = Answered(r, errorHandler(11000))]
                /\ UNCHANGED <<users, nextId>>
           ELSE /\ nextId < MaxUsers
                /\ users' = [users EXCEPT ![id] = NewUser(e, r.password, r.role, vtok)]
                /\ nextId' = id
                /\ reqs' = [reqs EXCEPT ![s] =
                              Answered(r, IssueSession(201, id, now))]
        /\ UNCHANGED <<now, ticks, jar, last, redeemed, jwtSecret, posts, client>>

\* forgotPassword up to the result of User.findOne({ email })
ForgotBegin(s, email) ==
    LET u == FindByEmail(users, email)
        r == Pending("forgot", "save", email, "", "", 0, u)
    IN  /\ FreeSlot(s)
        /\ reqs' = [reqs EXCEPT ![s] = IF u = 0 THEN Answered(r, ForgotNoUser) ELSE r]
        /\ UNCHANGED <<users, nextId, rnd, now, ticks, jar, last, redeemed, jwtSecret, posts, client>>

\* forgotPassword from the token's generation to the response
ForgotEnd(s) ==
    LET r == reqs[s]
        raw == rnd + 1
    IN  /\ r.pc = "save"
        /\ r.op = "forgot"
        /\ rnd < MaxRandom
        /\ rnd' = raw
        /\ users' = ForgotSave(users, r.doc, raw, now)
        /\ reqs' = [reqs EXCEPT ![s] = Answered([r EXCEPT !.token = raw], ForgotSent)]
        /\ UNCHANGED <<nextId, now, ticks, jar, last, redeemed, jwtSecret, posts, client>>

\* resetPassword up to the result of User.findOne({ passwordResetToken, ... })
ResetBegin(s, raw, password) ==
    LET u == ResetFind(users, now, raw)
        r == Pending("reset", "save", NoEmail, password, "", raw, u)
    IN  /\ FreeSlot(s)
        /\ reqs' = [reqs EXCEPT ![s] =
                      IF u = 0 THEN Answered(r, InvalidOrExpiredToken) ELSE r]
        /\ UNCHANGED <<users, nextId, rnd, now, ticks, jar, last, redeemed, jwtSecret, posts, client>>

\* resetPassword from user.save() to the response
ResetEnd(s) ==
    LET r == reqs[s]
    IN  /\ r.pc = "save"
        /\ r.op = "reset"
        /\ users' = ResetSave(users, r.doc, r.password)
        /\ redeemed' = Redeem(redeemed, r.token)
        /\ reqs' = [reqs EXCEPT ![s] = Answered(r, ResetSuccessful)]
        /\ UNCHANGED <<nextId, rnd, now, ticks, jar, last, jwtSecret, posts, client>>

\* verifyEmail up to the result of User.findOne({ emailVerificationToken })
VerifyBegin(s, tok) ==
    LET u == VerifyFind(users, tok)
        r == Pending("verify", "save", NoEmail, "", "", tok, u)
    IN  /\ FreeSlot(s)
        /\ reqs' = [reqs EXCEPT ![s] =
                      IF u = 0 THEN Answered(r, InvalidVerificationToken) ELSE r]
        /\ UNCHANGED <<users, nextId, rnd, now, ticks, jar, last, redeemed, jwtSecret, posts, client>>

\* verifyEmail from user.save() to the response
VerifyEnd(s) ==
    LET r == reqs[s]
    IN  /\ r.pc = "save"
        /\ r.op = "verify"
        /\ users' = VerifySave(users, r.doc)
        /\ reqs' = [reqs EXCEPT ![s] = Answered(r, EmailVerified)]
        /\ UNCHANGED <<nextId, rnd, now, ticks, jar, last, redeemed, jwtSecret, posts, client>>

\* POST /posts/:id/like: protect, then likePost up to the result of
\* Post.findById and the toggle on the loaded document
LikeBegin(s, header, pid) ==
    LET p == protect(users, now, header)
        r == Pending("like", "save", NoEmail, "", "", pid,
                     [user |-> p.identity, likes |-> posts[pid].likes,
                      likedBy |-> posts[pid].likedBy, fresh |-> TRUE])
    IN  /\ FreeSlot(s)
        /\ reqs' = [reqs EXCEPT ![s] =
              IF ~p.next THEN Answered(r, p.res)
              ELSE IF ~posts[pid].exists THEN Answered(r, PostNotFound)
              ELSE r]
        /\ UNCHANGED <<users, nextId, rnd, now, ticks, jar, last, redeemed, jwtSecret, posts, client>>

\* likePost from post.save() to the response; the other requests that hold
\* the post as loaded before this save no longer hold its current version.
LikeEnd(s) ==
    LET r == reqs[s]
        sv == LikeSave(posts, r.token, r.doc, r.doc.user, r.doc.fresh)
    IN  /\ r.pc = "save"
        /\ r.op = "like"
        /\ Len(sv.posts[r.token].likedBy) <= MaxLikes
        /\ sv.posts[r.token].likes <= MaxLikes
        /\ posts' = sv.posts
        /\ reqs' = [q \in Slots |->
              IF q = s
              THEN Answered(r, IF sv.written THEN Res(200, "", NoJwt, r.doc.user)
                               ELSE errorHandler(500))
              ELSE IF /\ sv.written
                      /\ reqs[q].pc = "save" /\ reqs[q].op = "like"
                      /\ reqs[q].token = r.token
              THEN [reqs[q] EXCEPT !.doc.fresh = FALSE]
              ELSE reqs[q]]
        /\ UNCHANGED <<users, nextId, rnd, now, ticks, jar, last, redeemed, jwtSecret, client>>

\* The response has been delivered; the slot serves the next request.
Close(s) ==
    /\ reqs[s].pc = "done"
    /\ reqs' = [reqs EXCEPT ![s] = IdleReq]
    /\ UNCHANGED <<users, nextId, rnd, now, ticks, jar, last, redeemed, jwtSecret, posts, client>>

\* Concurrent registrations.
NextRegister ==
    \/ \E s \in Slots, e \in InputEmails, r \in RoleInputs :
          RegisterBegin(s, e, "Secret123", r)
    \/ \E s \in Slots : RegisterCreate(s)
    \/ \E s \in Slots : Close(s)

RegisterSpec == Init /\ [][NextRegister]_vars

\* The account whose password resets and email verifications race.
RaceEmail == Email(<<"a", "b">>, "gmail.com")

\* Concurrent password resets for one account, registered beforehand.
NextReset ==
    \/ Register(RaceEmail, "Secret123", "")
    \/ \E s \in Slots : ForgotBegin(s, RaceEmail)
    \/ \E s \in Slots : ForgotEnd(s)
    \/ \E s \in Slots, t \in Tokens, p \in Passwords : ResetBegin(s, t, p)
    \/ \E s \in Slots : ResetEnd(s)
    \/ \E s \in Slots : Close(s)

ResetSpec == Init /\ [][NextReset]_vars

\* Email verification for one account: it registers, its verification link
\* is opened (possibly several times at once), its password is reset
\* meanwhile.
NextVerify ==
    \/ Register(RaceEmail, "Secret123", "")
    \/ \E s \in Slots, t \in Tokens : VerifyBegin(s, t)
    \/ \E s \in Slots : VerifyEnd(s)
    \/ \E s \in Slots : Close(s)
    \/ ForgotPassword(RaceEmail)
    \/ \E t \in Tokens : ResetPassword(t, "NewSecret456")

VerifySpec == Init /\ [][NextVerify]_vars

\* Addresses that differ from one another in letter case only, per domain.
CaseEmails ==
    { Email(<<"A", "b">>, "x.org"),
      Email(<<"a", "B">>, "x.org"),
      Email(<<"A", ".", "b">>, "gmail.com"),
      Email(<<"a", ".", "B">>, "gmail.com") }

\* Letter case: the same address is registered, logged in with and has its
\* password reset under different spellings.
NextCase ==
    \/ \E e \in CaseEmails, p \in Passwords : Register(e, p, "")
    \/ \E e \in CaseEmails, p \in Passwords : Login(e, p)
    \/ \E e \in CaseEmails : ForgotPassword(e)

CaseSpec == Init /\ [][NextCase]_vars

ProfileEmails == {Email(<<"a", "b">>, "gmail.com"), Email(<<"A", "b">>, "x.org")}

\* One account's sessions while its password is reset.
NextSessionReset ==
    \/ Register(RaceEmail, "Secret123", "")
    \/ Login(RaceEmail, "Secret123")
    \/ KeepToken
    \/ ForgotPassword(RaceEmail)
    \/ \E t \in Tokens : ResetPassword(t, "NewSecret456")
    \/ \E h \in Headers : GetMe(h)
    \/ Tick(SessionTTL \div 2)

SessionResetSpec == Init /\ [][NextSessionReset]_vars

\* One browser: its provider state and stored token against the server.
NextClient ==
    \/ ClientCheckAuth
    \/ \E e \in ProfileEmails : ClientRegister(e, "Secret123")
    \/ \E e \in ProfileEmails, p \in Passwords : ClientLogin(e, p)
    \/ ClientLogout
    \/ ClientRefreshUser
    \/ ClientReload
    \/ Tick(SessionTTL \div 2)

ClientSpec == Init /\ [][NextClient]_vars

\* An address no account is registered under.
UnknownEmail == Email(<<"n", "o">>, "x.org")

\* One account and every credential request about it or about no account,
\* verification links opened one at a time.
NextFrame ==
    \/ Register(RaceEmail, "Secret123", "")
    \/ \E e \in {RaceEmail, UnknownEmail}, p \in Passwords : Login(e, p)
    \/ \E h \in SessionHeaders : GetMe(h)
    \/ \E e \in {RaceEmail, UnknownEmail} : ForgotPassword(e)
    \/ \E t \in Tokens : ResetPassword(t, "NewSecret456")
    \/ \E t \in Tokens : VerifyBegin(1, t)
    \/ VerifyEnd(1)
    \/ Close(1)
    \/ Tick(ResetTTL)

FrameSpec == Init /\ [][NextFrame]_vars

\* The bodies of PUT /users/me requests.
UpdateBodies ==
    { [name |-> <<" ", "B", "<">>],
      [bio |-> <<"h", " ">>],
      [name |-> <<"A">>, bio |-> <<>>],
      [name |-> <<" ">>],
      [role |-> "admin"],
      [name |-> <<"A">>, role |-> "admin"],
      [bio |-> <<"h">>, isEmailVerified |-> TRUE] }

\* Profile updates by registered users.
NextProfile ==
    \/ \E e \in ProfileEmails : Register(e, "Secret123", "")
    \/ \E h \in SessionHeaders, b \in UpdateBodies : UpdateMe(h, b)
    \/ \E h \in SessionHeaders : GetMe(h)

ProfileSpec == Init /\ [][NextProfile]_vars

PostEmails == {RaceEmail, Email(<<"A", "b">>, "x.org")}

\* Posts: registered users create, like and delete posts; likes interleave.
NextPost ==
    \/ \E e \in PostEmails : Register(e, "Secret123", "")
    \/ \E h \in SessionHeaders : CreatePost(h)
    \/ \E h \in SessionHeaders, p \in PostIds : DeletePost(h, p)
    \/ \E s \in Slots, h \in SessionHeaders, p \in PostIds : LikeBegin(s, h, p)
    \/ \E s \in Slots : LikeEnd(s)
    \/ \E s \in Slots : Close(s)

PostSpec == Init /\ [][NextPost]_vars

\* ================================================================ claims
ValidRole(r) == registerValidation(r).status = 0

\* C1, the part that holds of every state.
C1_Inv ==
    \A raw \in Tokens :
        /\ redeemed[raw] <= 1
        /\ redeemed[raw] >= 1 => ResetFind(users, now, raw) = 0

\* C1, for one step of the system.
C1_Step ==
    \A raw \in Tokens, p \in Passwords :
        /\ ResetPassword(raw, p) /\ redeemed[raw] >= 1 =>
              /\ last'.res = Res(400, "Invalid or expired reset token", NoJwt, 0)
              /\ users' = users
        /\ ResetPassword(raw, p) /\ redeemed'[raw] > redeemed[raw] =>
              /\ last'.res.status = 200
              /\ login(users', now', users'[last'.identity].email, p).status = 200

\* C1: a reset token is single-use. No raw token is ever redeemed twice; once
\* it has been redeemed the lookup of resetPassword finds nothing for it, a
\* further ResetPassword with it answers 400 'Invalid or expired reset token'
\* and leaves every UserRecord, so the password set by the successful call,
\* as it was.
C1_SingleUse == []C1_Inv /\ [][C1_Step]_vars

\* C1 witness: a token that was redeemed has been presented again and refused.
C1_Witness ==
    /\ last.op = "reset"
    /\ redeemed[last.token] = 1
    /\ last.res = InvalidOrExpiredToken

\* C2: of the ResetPassword requests that carry the same raw token and whose
\* find and save steps interleave, at most one answers success.
C2_ConcurrentRedeemOnce == \A raw \in Tokens : redeemed[raw] <= 1

\* The duplicate-email refusals: the controller's and the error handler's.
IsDuplicateEmail(res) ==
    /\ res.status = 400
    /\ res.body \in {"Email already registered", "email already exists"}
    /\ res.jwt = NoJwt

\* C3: concurrent Register requests for one email never leave two UserRecords
\* with that email; a request that got past the existence check either
\* succeeds (201) or is refused with the duplicate-email 400 of the store's
\* uniqueness constraint, and then a record for the email exists; no two
\* answered requests for the same email both succeeded.
C3_RegisterRace ==
    /\ \A i, j \in UserIds :
          users[i].exists /\ users[j].exists /\ i # j => users[i].email # users[j].email
    /\ \A s \in Slots :
          reqs[s].pc = "done" /\ reqs[s].op = "register" /\ reqs[s].res.status # 201 =>
              \/ reqs[s].res = registerValidation("admin")
              \/ IsDuplicateEmail(reqs[s].res) /\ FindByEmail(users, reqs[s].email) # 0
    /\ \A s, q \in Slots :
          /\ s # q
          /\ reqs[s].pc = "done" /\ reqs[s].op = "register"
          /\ reqs[q].pc = "done" /\ reqs[q].op = "register"
          /\ reqs[s].email = reqs[q].email
          => ~(reqs[s].res.status = 201 /\ reqs[q].res.status = 201)

\* C3 witness: two requests for the same email both passed the existence
\* check; one was answered 201 and the other the store's duplicate-key 400.
C3_Witness ==
    \E s, q \in Slots :
        /\ reqs[s].pc = "done" /\ reqs[q].pc = "done"
        /\ reqs[s].email = reqs[q].email
        /\ reqs[s].res.status = 201
        /\ reqs[q].res = Res(400, "email already exists", NoJwt, 0)

\* C4, for one step of the system.
C4_Step ==
    \A e \in InputEmails, p \in Passwords, r \in RoleInputs :
        Register(e, p, r) /\ ValidRole(r) /\ FindByEmail(users, e) # 0 =>
            /\ last'.res = Res(400, "Email already registered", NoJwt, 0)
            /\ users' = users

\* C4: Register (with a valid body) for an email that already has a UserRecord
\* answers 400 'Email already registered' and leaves the users collection
\* exactly as it was.
C4_DuplicateEmail == [][C4_Step]_vars

C4_Witness ==
    /\ last.op = "register"
    /\ last.res = EmailAlreadyRegistered
    /\ FindByEmail(users, last.email) # 0

\* C5, for one step of the system.
C5_Step ==
    \A e \in InputEmails, p \in Passwords, r \in RoleInputs :
        Register(e, p, r) /\ last'.res.status = 201 =>
            LET lg == login(users', now', e, p)
            IN  /\ lg.status = 200
                /\ protect(users', now', Bearer(lg.jwt)).identity = last'.res.uid
                /\ protect(users', now', Bearer(last'.res.jwt)).identity = last'.res.uid

\* C5: right after a successful Register(email, password), Login with the
\* same email and password succeeds, protect resolves the token Login
\* returns to the user id Register created, and the token Register returned
\* resolves to that id too.
C5_RegisterThenLogin == [][C5_Step]_vars

\* C6, for one step of the system.
C6_Step ==
    \A raw \in Tokens, p \in Passwords :
        LET u == ResetFind(users, now, raw)
        IN  ResetPassword(raw, p) /\ last'.res = ResetSuccessful =>
              /\ u # 0
              /\ \A old \in Passwords :
                    comparePassword(old, users[u].password) /\ old # p =>
                        login(users', now', users[u].email, old)
                            = Res(401, "Invalid email or password", NoJwt, 0)
              /\ login(users', now', users[u].email, p).status = 200
              /\ login(users', now', users[u].email, p).uid = u
              /\ \A e \in InputEmails :
                    FindByEmail(users, e) = u =>
                        /\ login(users', now', e, p).status = 200
                        /\ \A old \in Passwords :
                              old # p => login(users', now', e, old).status = 401
              /\ users'[u].passwordResetToken = NoDigest
              /\ users'[u].passwordResetExpires = 0

\* C6: after a successful ResetPassword(token, newPassword), Login with the
\* user's email and the previous password (other than newPassword) fails with
\* 401 'Invalid email or password', Login with newPassword succeeds, and the
\* same write has cleared both the reset digest and the reset expiry.
C6_ResetChangesPassword == [][C6_Step]_vars

\* C6 witness: a reset has succeeded and set a password the account did not
\* have at registration.
C6_Witness ==
    /\ last.op = "reset"
    /\ last.res = ResetSuccessful
    /\ last.password = "NewSecret456"
    /\ users[last.identity].password = HashPassword("NewSecret456")

\* C7, for one step of the system.
C7_Step ==
    \A raw \in Tokens, p \in Passwords :
        /\ ResetPassword(raw, p)
        /\ \E u \in UserIds : /\ users[u].exists
                              /\ users[u].passwordResetToken = Sha256(raw)
        /\ \A u \in UserIds :
              users[u].exists /\ users[u].passwordResetToken = Sha256(raw)
                  => now >= users[u].passwordResetExpires
        => /\ last'.res = Res(400, "Invalid or expired reset token", NoJwt, 0)
           /\ users' = users

\* C7: a ResetPassword whose token's digest equals a stored passwordResetToken
\* but is presented at or after the stored expiry answers 400 'Invalid or
\* expired reset token' and changes no UserRecord; the expired fields stay in
\* the store.
C7_ExpiredTokenRefused == [][C7_Step]_vars

\* C7 witness: a token was refused while its digest is still stored and its
\* expiry has passed.
C7_Witness ==
    /\ last.op = "reset"
    /\ last.res = InvalidOrExpiredToken
    /\ \E u \in UserIds : /\ users[u].exists
                          /\ users[u].passwordResetToken = Sha256(last.token)
                          /\ users[u].passwordResetExpires <= now

\* C8: a Login that fails for an unknown email and a Login that fails for a
\* known email with a wrong password get the same status and body,
\* 401 'Invalid email or password'.
C8_LoginUniformFailure ==
    last.op = "login" =>
        LET u == FindByEmail(users, last.email)
        IN  /\ u = 0 => last.res = Res(401, "Invalid email or password", NoJwt, 0)
            /\ u # 0 /\ ~comparePassword(last.password, users[u].password) =>
                  last.res = Res(401, "Invalid email or password", NoJwt, 0)

\* C8 witness: a Login for an existing account with a wrong password was
\* refused.
C8_Witness ==
    /\ last.op = "login"
    /\ FindByEmail(users, last.email) # 0
    /\ last.res.status = 401

\* C9, for one step of the system.
C9_Step ==
    \A e \in InputEmails :
        LET u == FindByEmail(users, e)
        IN  ForgotPassword(e) =>
              /\ last'.res = Res(200, "If an account with that email exists, a password reset link has been sent.", NoJwt, 0)
              /\ u = 0 => users' = users
              /\ u # 0 =>
                    /\ users' = [users EXCEPT
                                    ![u].passwordResetToken = users'[u].passwordResetToken,
                                    ![u].passwordResetExpires = users'[u].passwordResetExpires]
                    /\ users'[u].passwordResetToken = Sha256(last'.sent)
                    /\ last'.sent > rnd
                    /\ users'[u].passwordResetExpires = now + ResetTTL

\* C9: ForgotPassword answers the same 200 and generic message whether or not
\* the email has a UserRecord; without a record the store is unchanged, with
\* one only that record's reset digest and expiry change.
C9_ForgotUniformResponse == [][C9_Step]_vars

\* C9 witness: ForgotPassword for an existing account has stored a digest.
C9_Witness ==
    /\ last.op = "forgot"
    /\ last.sent # 0
    /\ \E u \in UserIds : users[u].passwordResetToken = Sha256(last.sent)

\* C10, for one step of the system.
C10_Step ==
    \A h \in Headers :
        /\ GetMe(h)
        /\ h.scheme = "Bearer"
        /\ verifyTokenOk(h.token, now)
        /\ FindById(users, h.token.userId) = 0
        => /\ last'.res.status = 401
           /\ ~last'.handlerRan
           /\ last'.identity = 0
           /\ last'.res.uid = 0

\* C10: a request whose bearer token is validly signed and unexpired but whose
\* user id no longer resolves to a UserRecord is answered 401 by protect; the
\* handler behind it does not run and no user is attached to the request.
C10_DeletedUserRefused == [][C10_Step]_vars

\* C10 witness: a kept, still valid session token of a deleted account was
\* presented and refused.
C10_Witness ==
    /\ last.op = "me"
    /\ last.header.token \in jar
    /\ verifyTokenOk(last.header.token, now)
    /\ last.res.status = 401
    /\ ~last.handlerRan

\* C11: the response protect gives for a validly signed, unexpired token
\* whose user no longer exists has the same status and body as the response
\* it gives for the same token with a bad signature.
C11_DeletedUserLooksLikeBadToken ==
    [][\A h \in Headers :
          /\ GetMe(h)
          /\ h.scheme = "Bearer"
          /\ verifyTokenOk(h.token, now)
          /\ FindById(users, h.token.userId) = 0
          => last'.res = protect(users, now, Bearer(Forged(h.token))).res]_vars

\* The ways a request fails authentication before any user is looked up.
NoValidToken(h, t) ==
    \/ h = NoHeader
    \/ h = Bearer(NoJwt)
    \/ h = Bearer(Malformed)
    \/ h.scheme = "Bearer" /\ h.token.sig = "forged"
    \/ h.scheme = "Bearer" /\ h.token.sig = "hs256" /\ t >= h.token.exp

\* C12: protect answers the one response 401 'Not authorized to access this
\* route' for a missing Authorization header, a header without a bearer
\* token, a malformed token, a token with an invalid signature and an expired
\* token; the handler behind it does not run.
C12_UniformNotAuthorized ==
    [][\A h \in Headers :
          GetMe(h) /\ NoValidToken(h, now) =>
              /\ last'.res = Res(401, "Not authorized to access this route", NoJwt, 0)
              /\ ~last'.handlerRan
              /\ last'.identity = 0]_vars

\* C12 witness: a kept session token was presented after its expiry and
\* refused, while its user still exists.
C12_Witness ==
    /\ last.op = "me"
    /\ last.header.token \in jar
    /\ now >= last.header.token.exp
    /\ FindById(users, last.header.token.userId) # 0
    /\ last.res = ProtectNoToken

C14_NoAdminByRegister ==
    [][\A e \in InputEmails, r \in RegisterRoles :
          Register(e, "Secret123", r) =>
              /\ r = "admin" =>
                    /\ users' = users
                    /\ nextId' = nextId
                    /\ last'.res.status = 400
              /\ last'.res.status = 201 =>
                    /\ users'[last'.res.uid].role = (IF r = "" THEN "student" ELSE r)
                    /\ users'[last'.res.uid].role \in {"student", "founder"}
              /\ \A u \in UserIds :
                    users'[u].role = "admin" => users[u].role = "admin"]_vars

\* C14 witness: a founder has registered, and a request for role 'admin' was
\* refused.
C14_Witness ==
    /\ last.op = "register"
    /\ last.res = Res(400, "Role must be student or founder", NoJwt, 0)
    /\ \E u \in UserIds : users[u].exists /\ users[u].role = "founder"

\* C15: in every reachable state, under every interleaving of ForgotPassword
\* and ResetPassword requests for a user, each UserRecord's reset digest and
\* reset expiry are both set or both absent.
C15_DigestAndExpiryTogether ==
    \A u \in UserIds :
        users[u].exists =>
            (users[u].passwordResetToken = NoDigest <=> users[u].passwordResetExpires = 0)

\* C15 witness: a reset that read an older digest is about to save while a
\* later ForgotPassword has stored a new digest and expiry.
C15_Witness ==
    \E u \in UserIds, s \in Slots :
        /\ reqs[s].op = "reset" /\ reqs[s].pc = "save" /\ reqs[s].doc = u
        /\ users[u].passwordResetToken # NoDigest
        /\ users[u].passwordResetToken # Sha256(reqs[s].token)
        /\ users[u].passwordResetExpires # 0

\* C16: in every reachable state a stored passwordResetToken is absent or the
\* SHA-256 digest of a raw token that was issued, never a raw token; and for
\* a raw token resetPassword would accept, the stored value it matches is the
\* token's digest and differs from the token.
C16_StoredDigestNotRaw ==
    /\ \A u \in UserIds :
          /\ users[u].passwordResetToken \in {Sha256(t) : t \in 0..rnd}
          /\ users[u].passwordResetToken \notin {RawHex(t) : t \in Tokens}
    /\ \A raw \in Tokens :
          LET u == ResetFind(users, now, raw)
          IN  u # 0 => /\ users[u].passwordResetToken = Sha256(raw)
                       /\ users[u].passwordResetToken # RawHex(raw)
    /\ last.op = "forgot" /\ last.sent # 0 =>
          \A u \in UserIds : users[u].passwordResetToken # RawHex(last.sent)

\* C16 witness: ForgotPassword has sent a raw token whose digest is stored
\* and which ResetPassword would accept.
C16_Witness ==
    /\ last.op = "forgot"
    /\ last.sent # 0
    /\ ResetFind(users, now, last.sent) # 0

\* C17: of the VerifyEmail requests that carry the same verification token
\* and whose find and save steps interleave, at most one answers success.
C17_ConcurrentVerifyOnce ==
    \A s, q \in Slots :
        /\ s # q
        /\ reqs[s].pc = "done" /\ reqs[s].op = "verify"
        /\ reqs[q].pc = "done" /\ reqs[q].op = "verify"
        /\ reqs[s].token = reqs[q].token
        => ~(reqs[s].res.status = 200 /\ reqs[q].res.status = 200)

\* C18, for one step of the system.
C18_Step ==
    /\ \A u \in UserIds :
          /\ users[u].exists /\ users[u].isEmailVerified =>
                users'[u].exists /\ users'[u].isEmailVerified
          /\ ~users[u].exists /\ users'[u].exists =>
                /\ ~users'[u].isEmailVerified
                /\ users'[u].emailVerificationToken # 0
          /\ ~users[u].isEmailVerified /\ users'[u].isEmailVerified =>
                /\ users[u].exists
                /\ users[u].emailVerificationToken # 0
                /\ users'[u].emailVerificationToken = 0
                /\ \E s \in Slots :
                      VerifyEnd(s) /\ reqs[s].token = users[u].emailVerificationToken
    /\ \A s \in Slots, t \in Tokens :
          VerifyBegin(s, t) /\ VerifyFind(users, t) = 0 =>
              /\ reqs'[s].pc = "done"
              /\ reqs'[s].res = Res(400, "Invalid verification token", NoJwt, 0)
              /\ users' = users

\* C18: email verification is one-way. A UserRecord starts unverified with a
\* pending token; it becomes verified only by a VerifyEmail whose token
\* equals its stored emailVerificationToken, and the same write clears that
\* token; once verified it stays verified under every operation; VerifyEmail
\* with a token matching no record answers 400 'Invalid verification token'
\* and changes nothing.
C18_VerificationOneWay == [][C18_Step]_vars

\* C18 witness: a verified account has since had its password reset, and a
\* replay of its verification token was refused.
C18_Witness ==
    \E u \in UserIds, s \in Slots :
        /\ users[u].isEmailVerified
        /\ users[u].emailVerificationToken = 0
        /\ users[u].password = HashPassword("NewSecret456")
        /\ reqs[s].op = "verify"
        /\ reqs[s].pc = "done"
        /\ reqs[s].res = InvalidVerificationToken

\* C19, for one step of the system.
C19_Step ==
    /\ \A h \in Headers :
          GetMe(h) /\ h.scheme = "Bearer" /\ h.token.sig = "hs256" =>
              /\ last'.handlerRan => now - h.token.iat < SessionTTL
              /\ now - h.token.iat < SessionTTL /\ FindById(users, h.token.userId) # 0 =>
                    last'.handlerRan /\ last'.res.uid = h.token.userId
              /\ now - h.token.iat >= SessionTTL =>
                    /\ last'.res = Res(401, "Not authorized to access this route", NoJwt, 0)
                    /\ ~last'.handlerRan
    /\ last'.res.jwt # NoJwt /\ last' # last =>
          /\ last'.op \in {"register", "login"}
          /\ last'.res.jwt.iat = now
          /\ last'.res.jwt.exp = now + SessionTTL
    /\ jar \subseteq jar'

\* C19: protect accepts a session token only while less than 24 hours have
\* passed since it was issued, and refuses it with 401 'Not authorized to
\* access this route' from its 24th hour on; a token is only ever issued by
\* Register or Login, expiring 24 hours after that request, and no request
\* replaces or extends a token a client holds.
C19_SessionExpiry == [][C19_Step]_vars

\* C19 witness: a kept session token was presented exactly 24 hours after it
\* was issued and refused.
C19_Witness ==
    /\ last.op = "me"
    /\ last.header.token \in jar
    /\ now - last.header.token.iat = SessionTTL
    /\ last.res.status = 401

\* Two addresses that differ in letter case only.
CaseVariants(e, v) == e.domain = v.domain /\ LowerLocal(e.local) = LowerLocal(v.local)

\* C20, for one step of the system.
C20_Step ==
    \A e \in CaseEmails, p \in Passwords :
        Register(e, p, "") =>
            /\ (\E u \in UserIds : users[u].exists /\ CaseVariants(users[u].email, e)) =>
                  /\ IsDuplicateEmail(last'.res)
                  /\ users' = users
            /\ last'.res.status = 201 =>
                  \A v \in CaseEmails :
                      CaseVariants(e, v) =>
                          /\ login(users', now', v, p).status = 200
                          /\ login(users', now', v, p).uid = last'.res.uid
                          /\ FindByEmail(users', v) = last'.res.uid
            /\ \A i, j \in UserIds :
                  users'[i].exists /\ users'[j].exists /\ i # j =>
                      ~CaseVariants(users'[i].email, users'[j].email)

\* C20: Register with an address that differs only in letter case from an
\* existing record's email is refused as a duplicate and changes nothing;
\* after a successful Register, Login and the lookup of ForgotPassword given
\* any case-variant of the registered address resolve to the record it
\* created; and no two records' emails differ in letter case only.
C20_CaseInsensitiveEmail == [][C20_Step]_vars

\* C21: a process whose environment lacks JWT_SECRET has failed at startup:
\* it is in no state in which it has served a Register, a Login or a
\* protected request.
C21_NoSecretNoService == ~jwtSecret => last.op = "none"

\* C28: a Register that ends in an error response, the failure of
\* generateToken after User.create included, has created no UserRecord, so
\* that the same request can be sent again and succeed.
C28_RegisterAllOrNothing ==
    [][\A e \in InputEmails, p \in Passwords :
          Register(e, p, "") /\ last'.res.status >= 400 =>
              /\ users' = users
              /\ nextId' = nextId]_vars

\* C22: a DELETE /posts/:id from an authenticated user who is neither an
\* admin nor the post's author does not delete the post.
C22_DeleteNeedsAuthorOrAdmin ==
    [][\A h \in SessionHeaders, p \in PostIds :
          LET id == protect(users, now, h).identity
          IN  /\ DeletePost(h, p)
              /\ id # 0
              /\ posts[p].exists
              /\ users[id].role # "admin"
              /\ posts[p].author # id
              => posts'[p] = posts[p]]_vars

\* C24: login (with any outcome), getMe, resetPassword with a token whose
\* digest is stored for no account or whose expiry has passed, verifyEmail
\* with a token stored for no account, and forgotPassword for an address no
\* account has, change no field of any user record.
C24_FailedRequestsChangeNothing ==
    [][/\ \A e \in {RaceEmail, UnknownEmail}, p \in Passwords :
             Login(e, p) => users' = users /\ nextId' = nextId
       /\ \A h \in SessionHeaders : GetMe(h) => users' = users /\ nextId' = nextId
       /\ \A t \in Tokens :
             /\ ResetPassword(t, "NewSecret456")
             /\ ~\E u \in UserIds : /\ users[u].exists
                                    /\ users[u].passwordResetToken = Sha256(t)
                                    /\ users[u].passwordResetExpires > now
             => users' = users /\ nextId' = nextId
       /\ \A s \in Slots, t \in Tokens :
             /\ VerifyBegin(s, t)
             /\ ~\E u \in UserIds : users[u].exists /\ users[u].emailVerificationToken = t
             => users' = users /\ nextId' = nextId /\ reqs'[s].pc = "done"
       /\ \A e \in {RaceEmail, UnknownEmail} :
             /\ ForgotPassword(e)
             /\ ~\E u \in UserIds : users[u].exists /\ users[u].email = StoreEmail(e)
             => users' = users /\ nextId' = nextId]_vars

\* A reset with a token whose digest is still stored, but expired, was refused.
C24_Witness ==
    /\ last.op = "reset"
    /\ last.res = InvalidOrExpiredToken
    /\ \E u \in UserIds : /\ users[u].exists
                          /\ users[u].passwordResetToken = Sha256(last.token)
                          /\ users[u].passwordResetExpires <= now

\* The raw tokens resetPassword would accept for user u in store us at time t.
Redeemable(us, t, u) == {raw \in Tokens : ResetFind(us, t, raw) = u}

\* C25: when a forgotPassword for a user completes, the token it issued is
\* the only one resetPassword accepts for that user, so a token issued by an
\* earlier forgotPassword is refused from then on; and no token becomes
\* acceptable except by being issued.
C25_OnlyLatestResetToken ==
    [][/\ \A e \in {RaceEmail, UnknownEmail} :
             LET u == FindByEmail(users, e)
             IN  ForgotPassword(e) /\ u # 0 =>
                   /\ Redeemable(users', now', u) = {last'.sent}
                   /\ last'.sent \notin Redeemable(users, now, u)
       /\ \A u \in UserIds :
             Redeemable(users', now', u) \subseteq Redeemable(users, now, u)
             \/ (last'.op = "forgot" /\ last' # last)
       /\ \A t \in Tokens :
             /\ ResetPassword(t, "NewSecret456")
             /\ \A u \in UserIds : t \notin Redeemable(users, now, u)
             => last'.res = InvalidOrExpiredToken /\ users' = users]_vars

\* The token of the first forgotPassword, never redeemed, was refused while
\* the token of the second is stored and not expired.
C25_Witness ==
    /\ last.op = "reset"
    /\ last.res = InvalidOrExpiredToken
    /\ last.token = 2
    /\ redeemed[2] = 0
    /\ Redeemable(users, now, 1) = {3}
    /\ now = 0

\* C26: a resetPassword that found the record by a token which a later
\* forgotPassword has replaced before its save neither clears the newer
\* digest nor changes the password.
C26_SupersededResetChangesNothing ==
    [][\A s \in Slots :
          LET r == reqs[s]
          IN  /\ ResetEnd(s)
              /\ users[r.doc].passwordResetToken # NoDigest
              /\ users[r.doc].passwordResetToken # Sha256(r.token)
              => /\ users'[r.doc].passwordResetToken = users[r.doc].passwordResetToken
                 /\ users'[r.doc].password = users[r.doc].password]_vars

C30_AuthenticatedHasToken ==
    /\ client.isAuthenticated <=> client.user # 0
    /\ client.isAuthenticated => client.token # NoJwt

\* C23: a PUT /users/me request changes no record but the caller's, and of
\* that record nothing but name and bio; a body with any other field is
\* answered 400 'Request contains unexpected fields' and changes nothing.
C23_UpdateMeOnlyNameAndBio ==
    [][\A h \in SessionHeaders, b \in UpdateBodies :
          LET id == protect(users, now, h).identity
          IN  UpdateMe(h, b) =>
                /\ nextId' = nextId
                /\ \A u \in UserIds : u # id => users'[u] = users[u]
                /\ id # 0 =>
                      users'[id] = [users[id] EXCEPT !.name = users'[id].name,
                                                    !.bio = users'[id].bio]
                /\ (id # 0 /\ DOMAIN b \ {"name", "bio"} # {}) =>
                      /\ last'.res = UnexpectedFields
                      /\ ~last'.handlerRan
                      /\ users' = users]_vars

\* Two accounts exist, one has updated its name and bio, the other is as
\* registered, and the last request carried an unexpected field.
C23_Witness ==
    /\ last.op = "updateMe"
    /\ last.res = UnexpectedFields
    /\ last.identity # 0
    /\ \E u, w \in UserIds :
          /\ users[u].exists /\ users[w].exists
          /\ users[u].name = <<"B", "&lt;">> /\ users[u].bio = <<"h">>
          /\ users[w].name = RegisteredName /\ users[w].bio = <<>>

\* The user ids in a likedBy list.
Likers(likedBy) == {likedBy[i] : i \in DOMAIN likedBy}

\* C29: for every post, after any sequence or interleaving of likePost
\* requests, likes equals the number of entries of likedBy, no user id occurs
\* twice in likedBy, likes is not negative; and two likePost requests by one
\* user, run one after the other with nothing in between, leave likes and
\* the users in likedBy as they were.
C29_LikesMatchLikedBy ==
    \A p \in PostIds :
        posts[p].exists =>
            /\ posts[p].likes = Len(posts[p].likedBy)
            /\ Cardinality(Likers(posts[p].likedBy)) = Len(posts[p].likedBy)
            /\ posts[p].likes >= 0
            /\ \A u \in UserIds :
                  LET twice == likeToggle(likeToggle(posts[p], u), u)
                  IN  /\ twice.likes = posts[p].likes
                      /\ Likers(twice.likedBy) = Likers(posts[p].likedBy)

====
